---------------------------- MODULE Spec2Model ----------------------------
(***************************************************************************)
(* Model of cliplin's reindex command: the path classifier                 *)
(* (utils/chromadb.py), the file set resolver and the reconciliation loop  *)
(* (commands/reindex.py), over a small project tree and a document store.  *)
(*                                                                         *)
(* Paths are project-relative pathlib paths: sequences of components.      *)
(* Every component is a name whose characters are given by Chars, so that  *)
(* str(path), str.startswith, Path.match and the ordering of Path are      *)
(* computed character by character, as the code computes them.             *)
(* project_root is Path.cwd(); every path the command builds is            *)
(* project_root / relative, so the common absolute prefix is left out.     *)
(***************************************************************************)
EXTENDS Integers, Sequences, FiniteSets, TLC

(***************************************************************************)
(* Bounds of the model.                                                    *)
(***************************************************************************)
MaxRuns == 2
MaxContent == 2
MaxEdits == 1

(***************************************************************************)
(* Characters, in ASCII order, and the names used in the project tree.     *)
(***************************************************************************)
Alphabet ==
  << "-", ".", "/", "4", "E", "M", "R", "a", "b", "c", "d", "e", "f", "g",
     "i", "l", "m", "n", "o", "r", "s", "t", "u", "x", "y" >>

Ord(ch) == CHOOSE i \in 1..Len(Alphabet) : Alphabet[i] = ch

Chars ==
  [ n \in { "docs", "adrs", "business", "features", "featuresExtra", "ts4",
            "ui-intent", "sub", "sub-x", "a.md", "b.md", "c.md", "d.md",
            "login.feature", "notes.md", "e.feature", "t.ts4", "u.yaml",
            "README.md", "gone.md" } |->
      CASE n = "docs"          -> << "d", "o", "c", "s" >>
        [] n = "adrs"          -> << "a", "d", "r", "s" >>
        [] n = "business"      -> << "b", "u", "s", "i", "n", "e", "s", "s" >>
        [] n = "features"      -> << "f", "e", "a", "t", "u", "r", "e", "s" >>
        [] n = "featuresExtra" -> << "f", "e", "a", "t", "u", "r", "e", "s",
                                     "E", "x", "t", "r", "a" >>
        [] n = "ts4"           -> << "t", "s", "4" >>
        [] n = "ui-intent"     -> << "u", "i", "-", "i", "n", "t", "e", "n", "t" >>
        [] n = "sub"           -> << "s", "u", "b" >>
        [] n = "sub-x"         -> << "s", "u", "b", "-", "x" >>
        [] n = "a.md"          -> << "a", ".", "m", "d" >>
        [] n = "b.md"          -> << "b", ".", "m", "d" >>
        [] n = "c.md"          -> << "c", ".", "m", "d" >>
        [] n = "d.md"          -> << "d", ".", "m", "d" >>
        [] n = "login.feature" -> << "l", "o", "g", "i", "n", ".", "f", "e",
                                     "a", "t", "u", "r", "e" >>
        [] n = "notes.md"      -> << "n", "o", "t", "e", "s", ".", "m", "d" >>
        [] n = "e.feature"     -> << "e", ".", "f", "e", "a", "t", "u", "r", "e" >>
        [] n = "t.ts4"         -> << "t", ".", "t", "s", "4" >>
        [] n = "u.yaml"        -> << "u", ".", "y", "a", "m", "l" >>
        [] n = "README.md"     -> << "R", "E", "A", "D", "M", "E", ".", "m", "d" >>
        [] n = "gone.md"       -> << "g", "o", "n", "e", ".", "m", "d" >>
  ]

(***************************************************************************)
(* str, str.startswith, str.endswith and the ordering of str.              *)
(***************************************************************************)
RECURSIVE Str(_)
Str(p) ==
  IF p = << >> THEN << >>
  ELSE IF Len(p) = 1 THEN Chars[p[1]]
  ELSE Chars[p[1]] \o << "/" >> \o Str(Tail(p))

StartsWith(s, prefix) ==
  /\ Len(prefix) <= Len(s)
  /\ SubSeq(s, 1, Len(prefix)) = prefix

EndsWith(s, suffix) ==
  /\ Len(suffix) <= Len(s)
  /\ SubSeq(s, Len(s) - Len(suffix) + 1, Len(s)) = suffix

RECURSIVE StrLess(_, _)
StrLess(s, t) ==
  IF t = << >> THEN FALSE
  ELSE IF s = << >> THEN TRUE
  ELSE IF s[1] # t[1] THEN Ord(s[1]) < Ord(t[1])
  ELSE StrLess(Tail(s), Tail(t))


(***************************************************************************)
(* pathlib: the ordering of Path (component by component, each component   *)
(* compared as a str), Path.match against a "*<suffix>" pattern (the last  *)
(* component is matched with fnmatch, so it must end with the suffix) and  *)
(* the test that a path lies below a directory of the file system.         *)
(***************************************************************************)
RECURSIVE PathLess(_, _)
PathLess(p, q) ==
  IF q = << >> THEN FALSE
  ELSE IF p = << >> THEN TRUE
  ELSE IF p[1] # q[1] THEN StrLess(Chars[p[1]], Chars[q[1]])
  ELSE PathLess(Tail(p), Tail(q))

PatternSuffix ==
  [ pat \in { "*.md", "*.feature", "*.ts4", "*.yaml" } |->
      CASE pat = "*.md"      -> << ".", "m", "d" >>
        [] pat = "*.feature" -> << ".", "f", "e", "a", "t", "u", "r", "e" >>
        [] pat = "*.ts4"     -> << ".", "t", "s", "4" >>
        [] pat = "*.yaml"    -> << ".", "y", "a", "m", "l" >>
  ]

Match(p, pattern) ==
  /\ p # << >>
  /\ EndsWith(Chars[p[Len(p)]], PatternSuffix[pattern])

IsBelow(p, dir) ==
  /\ Len(p) > Len(dir)
  /\ SubSeq(p, 1, Len(dir)) = dir

(***************************************************************************)
(* The paths of the model: the files a project tree may hold, the values   *)
(* of the file argument, the paths the classifier is asked about.          *)
(***************************************************************************)
\* Every file a project tree of the resolver's specification may hold.
TreeFiles ==
  { << "docs", "adrs", "a.md" >>,
    << "docs", "adrs", "sub", "b.md" >>,
    << "docs", "adrs", "sub-x", "d.md" >>,
    << "docs", "business", "c.md" >>,
    << "docs", "features", "login.feature" >>,
    << "docs", "features", "notes.md" >>,
    << "docs", "featuresExtra", "e.feature" >>,
    << "docs", "ts4", "t.ts4" >>,
    << "docs", "ui-intent", "u.yaml" >>,
    << "README.md" >> }

\* Every file a project tree of the command's specification may hold.
ProjectFiles ==
  { << "docs", "adrs", "a.md" >>,
    << "docs", "business", "c.md" >>,
    << "docs", "features", "login.feature" >> }

\* The values of the file argument, and the paths the classifier is asked about.
FilePathArgs == TreeFiles \cup { << "docs", "adrs", "gone.md" >>, << "docs", "adrs" >> }
ClassifyPaths == FilePathArgs \cup { << "docs", "features" >> }

(***************************************************************************)
(* utils/chromadb.py: the collection table, in its insertion order.        *)
(***************************************************************************)
None == "None"

COLLECTION_MAPPINGS ==
  << [ name |-> "business-and-architecture",
       directories |-> << << "docs", "adrs" >>, << "docs", "business" >> >>,
       file_pattern |-> "*.md", type |-> "adr" ],
     [ name |-> "features",
       directories |-> << << "docs", "features" >> >>,
       file_pattern |-> "*.feature", type |-> "feature" ],
     [ name |-> "tech-specs",
       directories |-> << << "docs", "ts4" >> >>,
       file_pattern |-> "*.ts4", type |-> "ts4" ],
     [ name |-> "uisi",
       directories |-> << << "docs", "ui-intent" >> >>,
       file_pattern |-> "*.yaml", type |-> "ui-intent" ] >>

REQUIRED_COLLECTIONS == [ i \in 1..Len(COLLECTION_MAPPINGS) |-> COLLECTION_MAPPINGS[i].name ]

\* The pairs (mapping, directory) in the order the two nested loops visit them.
MappingDirs ==
  { << i, j >> \in (1..Len(COLLECTION_MAPPINGS)) \X (1..2) :
      j <= Len(COLLECTION_MAPPINGS[i].directories) }

PairBefore(a, b) == a[1] < b[1] \/ (a[1] = b[1] /\ a[2] < b[2])

\* The test of lines 137 and 139 (151 and 152) for one directory of one mapping.
DirMatches(relative_path, directory, mapping) ==
  /\ StartsWith(Str(relative_path), Str(directory))
  /\ Match(relative_path, mapping.file_pattern)

\* The first (mapping, directory) pair that matches, or none.
FirstMatch(relative_path) ==
  LET hits == { k \in MappingDirs :
                  DirMatches(relative_path,
                             COLLECTION_MAPPINGS[k[1]].directories[k[2]],
                             COLLECTION_MAPPINGS[k[1]]) }
  IN  IF hits = {} THEN << >>
      ELSE CHOOSE k \in hits : \A h \in hits : h = k \/ PairBefore(k, h)

\* FirstMatch of every path of the model, worked out once.
Classified == [ p \in ClassifyPaths |-> FirstMatch(p) ]

get_collection_for_file(file_path) ==
  LET k == Classified[file_path]
  IN  IF k = << >> THEN None ELSE COLLECTION_MAPPINGS[k[1]].name

\* get_file_type returning the type of the first mapping for any classified path.
get_file_type_of_first(file_path) ==
  IF FirstMatch(file_path) = << >> THEN None ELSE COLLECTION_MAPPINGS[1].type

get_file_type(file_path) ==
  LET k == Classified[file_path]
  IN  IF k = << >> THEN None ELSE COLLECTION_MAPPINGS[k[1]].type

(***************************************************************************)
(* The file system: F is the set of files, D the set of directories.       *)
(***************************************************************************)
Exists(F, D, p) == p \in F \/ p \in D

\* Rglob with the pattern left out of the scan (rglob("*")).
RglobAnyName(F, D, dir_path, pattern) ==
  { p \in F \cup D : IsBelow(p, dir_path) }

\* Path.rglob(pattern): every entry below dir_path whose name matches.
Rglob(F, D, dir_path, pattern) ==
  { p \in F \cup D : IsBelow(p, dir_path) /\ Match(p, pattern) }

\* sorted(): the ascending sequence of a set of paths.
RECURSIVE Sorted(_)
Sorted(S) ==
  IF S = {} THEN << >>
  ELSE LET m == CHOOSE x \in S : \A y \in S : y = x \/ PathLess(x, y)
       IN  << m >> \o Sorted(S \ {m})

\* The order in which a directory scan yields its entries is not specified:
\* scan is the order the file system lists them in, ascending or descending.
VARIABLE scan

ScanOrders == { "ascending", "descending" }

RECURSIVE Descending(_)
Descending(S) ==
  IF S = {} THEN << >>
  ELSE LET m == CHOOSE x \in S : \A y \in S : y = x \/ PathLess(y, x)
       IN  << m >> \o Descending(S \ {m})

Listing(S) == IF scan = "descending" THEN Descending(S) ELSE Sorted(S)

SeqSet(s) == { s[i] : i \in 1..Len(s) }

RECURSIVE Flatten(_)
Flatten(ss) == IF ss = << >> THEN << >> ELSE ss[1] \o Flatten(Tail(ss))

Return(files) == [ ok |-> TRUE, files |-> files, error |-> None ]
Raise(exc) == [ ok |-> FALSE, files |-> << >>, error |-> exc ]

type_mapping ==
  [ t \in { "ts4", "feature", "md", "yaml" } |->
      CASE t = "ts4"     -> [ dir |-> << "docs", "ts4" >>, pattern |-> "*.ts4" ]
        [] t = "feature" -> [ dir |-> << "docs", "features" >>, pattern |-> "*.feature" ]
        [] t = "md"      -> [ dir |-> << "docs", "adrs" >>, pattern |-> "*.md" ]
        [] t = "yaml"    -> [ dir |-> << "docs", "ui-intent" >>, pattern |-> "*.yaml" ]
  ]

\* TypeDirs without the special case of "md": the table's entry alone.
TypeDirsFromTable(file_type) == << type_mapping[file_type] >>

\* Lines 186-195: the directories searched for a type, with its pattern.
TypeDirs(file_type) ==
  IF file_type = "md"
  THEN << [ dir |-> << "docs", "adrs" >>, pattern |-> "*.md" ],
          [ dir |-> << "docs", "business" >>, pattern |-> "*.md" ] >>
  ELSE << type_mapping[file_type] >>

\* Lines 213-214: every directory of every mapping, with the mapping's pattern.
AllDirs ==
  Flatten([ i \in 1..Len(COLLECTION_MAPPINGS) |->
    [ j \in 1..Len(COLLECTION_MAPPINGS[i].directories) |->
        [ dir |-> COLLECTION_MAPPINGS[i].directories[j],
          pattern |-> COLLECTION_MAPPINGS[i].file_pattern ] ] ])

\* ScanEach leaving the loop at the first directory that does not exist.
RECURSIVE ScanUntilMissing(_, _, _)
ScanUntilMissing(F, D, searches) ==
  IF searches = << >> THEN << >>
  ELSE IF ~Exists(F, D, searches[1].dir) THEN << >>
  ELSE Listing(Rglob(F, D, searches[1].dir, searches[1].pattern))
       \o ScanUntilMissing(F, D, Tail(searches))

\* Lines 189-191, 193-195, 215-217: files.extend(dir_path.rglob(pattern)) for
\* each directory that exists; an absent directory contributes nothing.
RECURSIVE ScanEach(_, _, _)
ScanEach(F, D, searches) ==
  IF searches = << >> THEN << >>
  ELSE (IF Exists(F, D, searches[1].dir)
        THEN Listing(Rglob(F, D, searches[1].dir, searches[1].pattern))
        ELSE << >>)
       \o ScanEach(F, D, Tail(searches))

\* Line 219 without sorted(set(...)): the list as the scans filled it.
AsScanned(files) == files

\* Line 219.
SortedSet(files) == Sorted(SeqSet(files))

\* Lines 204-209: the first mapping that registers the directory, 0 when none.
DirectoryMapping(directory) ==
  LET hits == { i \in 1..Len(COLLECTION_MAPPINGS) :
                  \E j \in 1..Len(COLLECTION_MAPPINGS[i].directories) :
                     Str(COLLECTION_MAPPINGS[i].directories[j]) = Str(directory) }
  IN  IF hits = {} THEN 0 ELSE CHOOSE i \in hits : \A h \in hits : i <= h

\* SingleFile without the classification of lines 161-166.
SingleFileUnchecked(F, D, file_path) ==
  IF ~Exists(F, D, file_path) THEN Raise("FileNotFoundError")
  ELSE Return(<< file_path >>)

\* Lines 154-168: the single file.
SingleFile(F, D, file_path) ==
  IF ~Exists(F, D, file_path) THEN Raise("FileNotFoundError")
  ELSE IF get_collection_for_file(file_path) = None THEN Raise("ValueError")
  ELSE Return(<< file_path >>)

\* Line 219, the one return of the function that a raise does not reach.
ReturnSorted(found) ==
  IF found.ok THEN Return(SortedSet(found.files)) ELSE found

\* Lines 197-209: the files of a directory a mapping registers.
DirectoryFiles(F, D, directory, mapping) ==
  IF ~Exists(F, D, directory) THEN Raise("FileNotFoundError")
  ELSE IF mapping = 0 THEN Raise("ValueError")
  ELSE Return(Listing(Rglob(F, D, directory,
                            COLLECTION_MAPPINGS[mapping].file_pattern)))

get_files_to_reindex(F, D, file_path, file_type, directory) ==
  ReturnSorted(
    IF file_path # << >> THEN SingleFile(F, D, file_path)
    ELSE IF file_type # "" THEN
      IF file_type \notin DOMAIN type_mapping THEN Raise("ValueError")
      ELSE Return(ScanEach(F, D, TypeDirs(file_type)))
    ELSE IF directory # << >>
      THEN DirectoryFiles(F, D, directory, DirectoryMapping(directory))
    ELSE Return(ScanEach(F, D, AllDirs)))

(***************************************************************************)
(* The project trees the model ranges over.                                *)
(***************************************************************************)
RegisteredDirs ==
  { COLLECTION_MAPPINGS[k[1]].directories[k[2]] : k \in MappingDirs }

\* The directories that hold a file, directly or not.
Ancestors(F) == UNION { { SubSeq(p, 1, n) : n \in 1..(Len(p) - 1) } : p \in F }

\* The values of the command's arguments the model draws from.
TypeArgs == { "ts4", "feature", "md", "yaml", "txt" }
DirectoryArgs ==
  RegisteredDirs \cup { << "docs", "featuresExtra" >>, << "docs", "adrs", "sub" >>,
                        << "docs" >> }

Selections ==
  { [ file_path |-> << >>, type |-> "", directory |-> << >> ] }
  \cup { [ file_path |-> f, type |-> "", directory |-> << >> ] : f \in FilePathArgs }
  \cup { [ file_path |-> << >>, type |-> t, directory |-> << >> ] : t \in TypeArgs }
  \cup { [ file_path |-> << >>, type |-> "", directory |-> d ] : d \in DirectoryArgs }


(***************************************************************************)
(* The state: the project tree, the document store, one invocation of the  *)
(* command, and what the run has done so far.                              *)
(***************************************************************************)
VARIABLES
  fs,               \* file -> content, for the files of the project tree
  dirs,             \* the directories of the project tree
  dbExists,         \* .cliplin/data/context/chroma.sqlite3 exists
  store,            \* collection name -> (id -> [document, metadata])
  pc,               \* "idle", "loop" (lines 124-135), "exit", "killed"
  args,             \* the arguments of the invocation
  files_to_process, \* line 81
  stats,            \* line 110
  outcomes,         \* per processed file: "added", "updated" or "raised"
  exit_code,        \* the status the invocation ended with (-1: none yet)
  error,            \* the exception that ended the run (lines 62, 140)
  runs,             \* invocations so far
  store0,           \* the store when the invocation started
  lastOutcome,      \* id -> what the file's latest reconcile returned, if it did
  last,             \* the latest reindex_file call
  prev,             \* the summary of the previous run, when it selected all
  interrupted,      \* whether the previous run was stopped, and what it selected
  probe             \* the latest classification asked of the classifier

vars ==
  << fs, dirs, dbExists, store, pc, args, files_to_process, stats, outcomes,
     exit_code, error, runs, store0, lastOutcome, last, prev, interrupted,
     probe, scan >>

(***************************************************************************)
(* The document store (chromadb), as the command uses it.                  *)
(***************************************************************************)
Put(f, k, v) == [ x \in DOMAIN f \cup {k} |-> IF x = k THEN v ELSE f[x] ]

NoDocs == [ x \in {} |-> x ]

\* client.list_collections()
list_collections(st) == DOMAIN st

\* get_or_create_collection that creates nothing.
get_collection_only(st, col_name) == st

\* client.get_or_create_collection(name=col_name)
get_or_create_collection(st, col_name) ==
  IF col_name \in DOMAIN st THEN st ELSE Put(st, col_name, NoDocs)

verify_collections(st) ==
  SelectSeq(REQUIRED_COLLECTIONS, LAMBDA col : col \notin list_collections(st))

\* collection.get(ids=[file_id])["ids"]
collection_get(collection, file_id) ==
  IF file_id \in DOMAIN collection THEN << file_id >> ELSE << >>

\* collection_update that leaves the record as it is.
collection_update_ignored(collection, file_id, content, metadata) == collection

\* collection_update that replaces the metadata and keeps the document.
collection_update_metadata(collection, file_id, content, metadata) ==
  IF file_id \in DOMAIN collection
  THEN Put(collection, file_id,
           [ document |-> collection[file_id].document, metadata |-> metadata ])
  ELSE collection

\* collection.update(ids, documents, metadatas): replaces the record of an id.
collection_update(collection, file_id, content, metadata) ==
  IF file_id \in DOMAIN collection
  THEN Put(collection, file_id, [ document |-> content, metadata |-> metadata ])
  ELSE collection

\* collection.add(ids, documents, metadatas): a new record; chromadb's
\* PersistentClient leaves the record of an id it already holds as it is.
collection_add(collection, file_id, content, metadata) ==
  IF file_id \in DOMAIN collection
  THEN collection
  ELSE Put(collection, file_id, [ document |-> content, metadata |-> metadata ])

(***************************************************************************)
(* reindex_file, lines 222-277.  faults names the calls that raise in this *)
(* call: "read" (read_text), "lookup" (collection.get), "write"            *)
(* (collection.add or collection.update).  dup is what an add of an id the *)
(* collection already holds does: "ignore" or "raise".                     *)
(***************************************************************************)
\* What a call of reindex_file comes to: result is what it returns ("raised"
\* when it raises), call the operation it issued on the collection (None,
\* "add" or "update") with its payload, lookup_raised whether collection.get
\* was called and raised.
Raised(st) ==
  [ result |-> "raised", store |-> st, call |-> None, payload |-> None,
    lookup_raised |-> FALSE ]

Issued(call, payload, looked, result, st) ==
  [ result |-> result, store |-> st, call |-> call, payload |-> payload,
    lookup_raised |-> looked ]

\* The existence check with a lookup that raises taken as a hit.
LookupAssumesHit(collection, file_id, looked) ==
  IF looked THEN TRUE ELSE Len(collection_get(collection, file_id)) > 0

\* Lines 245-249: the existence check; looked is whether collection.get raises.
LookupExists(collection, file_id, looked) ==
  IF looked THEN FALSE ELSE Len(collection_get(collection, file_id)) > 0

\* Lines 230-277, with the values of lines 226-232 in hand.
Reconcile(st, files, file_path, file_id, collection_name, file_type, faults, dup) ==
  LET content == files[file_path]
      collection == st[collection_name]
      looked == "lookup" \in faults
      exists == LookupExists(collection, file_id, looked)
      metadata == [ file_path |-> file_id, type |-> file_type,
                    collection |-> collection_name ]
      payload == [ document |-> content, metadata |-> metadata ]
  IN  IF collection_name = None \/ file_type = None THEN Raised(st)
      ELSE IF "read" \in faults \/ file_path \notin DOMAIN files
        THEN Raised(st)
      ELSE IF collection_name \notin DOMAIN st
        THEN Raised(st)
      ELSE IF exists THEN
        IF "write" \in faults THEN Issued("update", payload, looked, "raised", st)
        ELSE Issued("update", payload, looked, "updated",
               [ st EXCEPT ![collection_name] =
                   collection_update(@, file_id, content, metadata) ])
      ELSE
        IF "write" \in faults THEN Issued("add", payload, looked, "raised", st)
        ELSE IF file_id \in DOMAIN collection /\ dup = "raise"
          THEN Issued("add", payload, looked, "raised", st)
        ELSE Issued("add", payload, looked, "added",
               [ st EXCEPT ![collection_name] =
                   collection_add(@, file_id, content, metadata) ])

reindex_file(st, files, file_path, faults, dup) ==
  Reconcile(st, files, file_path, Str(file_path),
            get_collection_for_file(file_path), get_file_type(file_path),
            faults, dup)

(***************************************************************************)
(* reindex_command up to the loop, lines 58-108.  env holds what the       *)
(* environment decides: whether get_chromadb_client succeeds, which        *)
(* get_or_create_collection call raises (0: none), the answer to           *)
(* typer.confirm.                                                          *)
(***************************************************************************)
RECURSIVE CreateAll(_, _)
CreateAll(st, names) ==
  IF names = << >> THEN st
  ELSE CreateAll(get_or_create_collection(st, names[1]), Tail(names))

Ended(st, code, exc, files) ==
  [ pc |-> "exit", store |-> st, exit_code |-> code, error |-> exc, files |-> files ]

\* Lines 140-142: the handler of the try block that starts at line 69.
ExceptException(st, exc, files) == Ended(st, 1, exc, files)

\* raise typer.Exit() at lines 87, 93 and 105, inside the try block: typer.Exit
\* is click.exceptions.Exit, a RuntimeError, so the handler at line 140 takes it.
RaiseExit(st, files) == ExceptException(st, "Exit", files)

\* Lines 73-78: fail_at is the call that raises, 0 when none does.
Bootstrap(st, fail_at) ==
  LET missing == verify_collections(st)
  IN  IF fail_at \in 1..Len(missing)
      THEN [ ok |-> FALSE, store |-> CreateAll(st, SubSeq(missing, 1, fail_at - 1)) ]
      ELSE [ ok |-> TRUE, store |-> CreateAll(st, missing) ]

\* Lines 73-108: boot is what lines 73-78 did, sel what line 81 returns or raises.
Select(boot, sel, a, env) ==
  IF ~boot.ok THEN ExceptException(boot.store, "CollectionError", << >>)
  ELSE IF ~sel.ok THEN ExceptException(boot.store, sel.error, << >>)
  ELSE IF sel.files = << >> THEN RaiseExit(boot.store, sel.files)
  ELSE IF a.dry_run THEN RaiseExit(boot.store, sel.files)
  ELSE IF a.interactive /\ ~env.answer THEN RaiseExit(boot.store, sel.files)
  ELSE [ pc |-> "loop", store |-> boot.store, exit_code |-> -1,
         error |-> None, files |-> sel.files ]

Setup(st, db, files, D, a, env) ==
  IF ~db THEN Ended(st, 1, "NotInitialized", << >>)
  ELSE IF ~env.client_ok THEN ExceptException(st, "ClientError", << >>)
  ELSE Select(Bootstrap(st, env.fail_at),
              get_files_to_reindex(DOMAIN files, D, a.file_path, a.type,
                                   a.directory),
              a, env)

NoStats == [ added |-> 0, updated |-> 0, skipped |-> 0, errors |-> 0 ]

NoArgs ==
  [ file_path |-> << >>, type |-> "", directory |-> << >>,
    dry_run |-> FALSE, interactive |-> FALSE ]

NoCall ==
  [ file |-> << >>, result |-> None, lookup_raised |-> FALSE, before |-> None,
    call |-> None, payload |-> None ]

NoRun == [ killed |-> FALSE, file_path |-> << >>, type |-> "", directory |-> << >> ]

NoProbe == [ path |-> << >>, collection |-> None, type |-> None ]

\* The invocations of the command's specification.
CommandSelections ==
  { s \in Selections :
      /\ s.file_path \in { << >>, << "docs", "adrs", "a.md" >>,
                           << "docs", "adrs", "gone.md" >>, << "docs", "adrs" >> }
      /\ s.type \in { "", "md", "feature", "ts4", "txt" }
      /\ s.directory \in { << >>, << "docs", "adrs" >>,
                           << "docs", "featuresExtra" >>, << "docs" >> } }

Faults == { {}, { "read" }, { "lookup" }, { "write" }, { "lookup", "write" } }

\* TryReindex with an except clause that counts nothing.
TryReindexErrorUncounted(counts, r) ==
  [ stats |-> IF r.result = "raised" THEN counts
              ELSE [ counts EXCEPT ![r.result] = @ + 1 ],
    pc |-> "loop", exit_code |-> -1, error |-> None ]

\* TryReindex without its except clause: the exception reaches line 140.
TryReindexUncaught(counts, r) ==
  IF r.result = "raised"
  THEN [ stats |-> counts, pc |-> "exit", exit_code |-> 1, error |-> "Exception" ]
  ELSE [ stats |-> [ counts EXCEPT ![r.result] = @ + 1 ],
         pc |-> "loop", exit_code |-> -1, error |-> None ]

\* Lines 125-135: the try block around one file of the loop.
TryReindex(counts, r) ==
  [ stats |-> [ counts EXCEPT ![IF r.result = "raised" THEN "errors"
                                ELSE r.result] = @ + 1 ],
    pc |-> "loop", exit_code |-> -1, error |-> None ]

(***************************************************************************)
(* The actions of the command.                                             *)
(***************************************************************************)
Invoke ==
  /\ pc = "idle"
  /\ runs < MaxRuns
  /\ \E s \in CommandSelections, dry_run \in BOOLEAN, interactive \in BOOLEAN,
        answer \in BOOLEAN, client_ok \in BOOLEAN,
        fail_at \in 0..Len(verify_collections(store)) :
       /\ (answer => interactive /\ ~dry_run)
       /\ (fail_at > 0 => client_ok)
       /\ args' = [ file_path |-> s.file_path, type |-> s.type,
                    directory |-> s.directory, dry_run |-> dry_run,
                    interactive |-> interactive ]
       /\ \E r \in { Setup(store, dbExists, fs, dirs, args',
                            [ client_ok |-> client_ok, fail_at |-> fail_at,
                              answer |-> answer ]) } :
           /\ store0' = store
           /\ store' = r.store
           /\ pc' = r.pc
           /\ exit_code' = r.exit_code
           /\ error' = r.error
           /\ files_to_process' = r.files
           /\ stats' = NoStats
           /\ outcomes' = << >>
           /\ runs' = runs + 1
  /\ UNCHANGED << scan, interrupted, fs, dirs, dbExists, lastOutcome, last, prev, probe >>

ReindexStep ==
  /\ pc = "loop"
  /\ Len(outcomes) < Len(files_to_process)
  /\ \E faults \in Faults, dup \in { "ignore", "raise" } :
       LET file_path_obj == files_to_process[Len(outcomes) + 1]
           file_id == Str(file_path_obj)
       IN  /\ (dup = "raise" =>
                 /\ "lookup" \in faults /\ "write" \notin faults
                 /\ file_id \in DOMAIN store[get_collection_for_file(file_path_obj)])
           /\ \E r \in { reindex_file(store, fs, file_path_obj, faults, dup) } :
              \E t \in { TryReindex(stats, r) } :
                /\ store' = r.store
                /\ stats' = t.stats
                /\ pc' = t.pc
                /\ exit_code' = t.exit_code
                /\ error' = t.error
                /\ outcomes' = Append(outcomes, r.result)
                /\ last' = [ file |-> file_path_obj, result |-> r.result,
                             lookup_raised |-> r.lookup_raised,
                             call |-> r.call, payload |-> r.payload,
                             before |-> IF file_id \in DOMAIN lastOutcome
                                        THEN lastOutcome[file_id] ELSE None ]
                /\ lastOutcome' =
                     IF r.result = "raised"
                     THEN [ x \in DOMAIN lastOutcome \ { file_id } |-> lastOutcome[x] ]
                     ELSE Put(lastOutcome, file_id, r.result)
  /\ UNCHANGED << scan, interrupted, fs, dirs, dbExists, args, files_to_process, runs, store0,
                  prev, probe >>

\* Lines 137-138: the summary; the command returns.
Finish ==
  /\ pc = "loop"
  /\ Len(outcomes) = Len(files_to_process)
  /\ pc' = "exit"
  /\ exit_code' = 0
  /\ UNCHANGED << scan, interrupted, fs, dirs, dbExists, store, args, files_to_process, stats,
                  outcomes, error, runs, store0, lastOutcome, last, prev, probe >>

\* The process is stopped between two files of the loop.
Interrupt ==
  /\ pc = "loop"
  /\ Len(outcomes) < Len(files_to_process)
  /\ pc' = "killed"
  /\ UNCHANGED << scan, interrupted, fs, dirs, dbExists, store, args, files_to_process, stats,
                  outcomes, exit_code, error, runs, store0, lastOutcome, last,
                  prev, probe >>

\* Between two invocations a file that has been reconciled is edited.
RECURSIVE Edits(_)
Edits(files) ==
  IF DOMAIN files = {} THEN 0
  ELSE LET f == CHOOSE g \in DOMAIN files : TRUE
       IN  (files[f] - 1) + Edits([ g \in DOMAIN files \ {f} |-> files[g] ])

EditFile ==
  /\ pc = "idle"
  /\ runs \in 1..(MaxRuns - 1)
  /\ Edits(fs) < MaxEdits
  /\ \E f \in DOMAIN fs :
       /\ Str(f) \in DOMAIN lastOutcome
       /\ fs[f] < MaxContent
       /\ fs' = [ fs EXCEPT ![f] = @ + 1 ]
  /\ UNCHANGED << scan, interrupted, dirs, dbExists, store, pc, args, files_to_process, stats,
                  outcomes, exit_code, error, runs, store0, lastOutcome, last,
                  prev, probe >>

\* The process has ended: nothing of the invocation is left but the store, and
\* the summary it printed when it selected all the files and returned.
IsAll(a) == a.file_path = << >> /\ a.type = "" /\ a.directory = << >>

EndOfProcess ==
  /\ pc \in { "exit", "killed" }
  /\ pc' = "idle"
  /\ args' = NoArgs
  /\ files_to_process' = << >>
  /\ stats' = NoStats
  /\ outcomes' = << >>
  /\ exit_code' = -1
  /\ error' = None
  /\ store0' = store
  /\ last' = NoCall
  /\ prev' = IF pc = "exit" /\ exit_code = 0 /\ IsAll(args) THEN stats ELSE NoStats
  /\ interrupted' = IF pc = "killed"
                    THEN [ killed |-> TRUE, file_path |-> args.file_path,
                           type |-> args.type, directory |-> args.directory ]
                    ELSE NoRun
  /\ UNCHANGED << scan, fs, dirs, dbExists, store, runs, lastOutcome, probe >>

InitRun ==
  /\ pc = "idle"
  /\ args = NoArgs
  /\ files_to_process = << >>
  /\ stats = NoStats
  /\ outcomes = << >>
  /\ exit_code = -1
  /\ error = None
  /\ runs = 0
  /\ lastOutcome = NoDocs
  /\ last = NoCall
  /\ prev = NoStats
  /\ interrupted = NoRun
  /\ probe = NoProbe

\* A project tree, and a store that holds any of the collections, no document.
\* No directory of ProjectFiles holds two files, so the order in which the file
\* system lists a directory makes no difference here: one order stands for all.
Init ==
  /\ \E F \in SUBSET ProjectFiles :
       /\ fs = [ f \in F |-> 1 ]
       /\ dirs = Ancestors(F)
  /\ dbExists \in BOOLEAN
  /\ \E C \in SUBSET SeqSet(REQUIRED_COLLECTIONS) :
       /\ (~dbExists => C = {})
       /\ store = [ c \in C |-> NoDocs ]
  /\ store0 = store
  /\ scan = "descending"
  /\ InitRun

Next == Invoke \/ ReindexStep \/ Finish \/ Interrupt \/ EndOfProcess \/ EditFile

Spec == Init /\ [][Next]_vars

(***************************************************************************)
(* The command over a project that has run before: the store holds all    *)
(* the collections and either no document or, for each of the project's    *)
(* files, the document an earlier run wrote for it, as the file is now or  *)
(* as it was before its latest edit.  No file changes between the runs.    *)
(***************************************************************************)
\* The record lines 252-274 write for a file of a given content.
Document(file_path, content) ==
  [ document |-> content,
    metadata |-> [ file_path |-> Str(file_path),
                   type |-> get_file_type(file_path),
                   collection |-> get_collection_for_file(file_path) ] ]

\* The store that holds, for each file of indexed, the document of its content.
StoreOf(indexed) ==
  [ c \in SeqSet(REQUIRED_COLLECTIONS) |->
      LET held == { f \in DOMAIN indexed : get_collection_for_file(f) = c }
      IN  [ id \in { Str(f) : f \in held } |->
              Document(CHOOSE f \in held : Str(f) = id,
                       indexed[CHOOSE f \in held : Str(f) = id]) ] ]

\* The files of the projects that are run again: two files of one collection.
RerunFiles == { << "docs", "adrs", "a.md" >>, << "docs", "business", "c.md" >> }

InitRerun ==
  /\ \E F \in SUBSET RerunFiles :
       /\ fs \in [ F -> 1..MaxContent ]
       /\ Edits(fs) <= MaxEdits
       /\ dirs = Ancestors(F)
       /\ \E G \in { {}, F } :
            \E indexed \in [ G -> 1..MaxContent ] :
              /\ \A f \in G : indexed[f] <= fs[f]
              /\ store = StoreOf(indexed)
  /\ dbExists = TRUE
  /\ store0 = store
  /\ scan = "descending"
  /\ InitRun

NextRerun == Invoke \/ ReindexStep \/ Finish \/ Interrupt \/ EndOfProcess

SpecRerun == InitRerun /\ [][NextRerun]_vars

(***************************************************************************)
(* The classifier and the resolver on their own: any project tree over     *)
(* TreeFiles, any registered directory present with nothing in it, any     *)
(* selection, any path.                                                    *)
(***************************************************************************)
Classify ==
  /\ pc = "idle"
  /\ \E p \in ClassifyPaths :
       probe' = [ path |-> p, collection |-> get_collection_for_file(p),
                  type |-> get_file_type(p) ]
  /\ pc' = "classified"
  /\ args' = NoArgs
  /\ files_to_process' = << >>
  /\ error' = None
  /\ UNCHANGED << scan, interrupted, fs, dirs, dbExists, store, stats, outcomes, exit_code, runs,
                  store0, lastOutcome, last, prev >>

Resolve ==
  /\ pc = "idle"
  /\ \E s \in Selections :
       \E r \in { get_files_to_reindex(DOMAIN fs, dirs, s.file_path, s.type,
                                        s.directory) } :
           /\ args' = [ file_path |-> s.file_path, type |-> s.type,
                        directory |-> s.directory, dry_run |-> FALSE,
                        interactive |-> FALSE ]
           /\ files_to_process' = r.files
           /\ error' = r.error
  /\ pc' = "resolved"
  /\ probe' = NoProbe
  /\ UNCHANGED << scan, interrupted, fs, dirs, dbExists, store, stats, outcomes, exit_code, runs,
                  store0, lastOutcome, last, prev >>

InitResolve ==
  /\ \E F \in SUBSET TreeFiles, E \in SUBSET RegisteredDirs :
       /\ fs = [ f \in F |-> 1 ]
       /\ dirs = Ancestors(F) \cup E \cup Ancestors(E)
  /\ dbExists = TRUE
  /\ store = [ c \in SeqSet(REQUIRED_COLLECTIONS) |-> NoDocs ]
  /\ store0 = store
  /\ scan \in ScanOrders
  /\ InitRun

NextResolve == Classify \/ Resolve

SpecResolve == InitResolve /\ [][NextResolve]_vars

(***************************************************************************)
(* Properties.                                                             *)
(***************************************************************************)
Stored(st, file_path) ==
  /\ get_collection_for_file(file_path) \in DOMAIN st
  /\ Str(file_path) \in DOMAIN st[get_collection_for_file(file_path)]

DocOf(st, file_path) == st[get_collection_for_file(file_path)][Str(file_path)]

OneAdded == [ added |-> 1, updated |-> 0, skipped |-> 0, errors |-> 0 ]
OneUpdated == [ added |-> 0, updated |-> 1, skipped |-> 0, errors |-> 0 ]

\* The run selected all, found one file, returned from the loop, counted no error.
CleanRunOfOne ==
  /\ pc = "exit"
  /\ exit_code = 0
  /\ IsAll(args)
  /\ Len(files_to_process) = 1
  /\ stats.errors = 0

Raising == { i \in 1..Len(outcomes) : outcomes[i] = "raised" }

\* C2: a run that entered the loop and in which exactly one file raised ends
\* with status 0 after every file was processed, counts one error, and every
\* other file was added or updated and is in the store.
C2_FailureIsolation ==
  (pc = "exit" /\ outcomes # << >> /\ Cardinality(Raising) = 1)
    => /\ exit_code = 0
       /\ Len(outcomes) = Len(files_to_process)
       /\ stats.errors = 1
       /\ \A j \in 1..Len(outcomes) :
            j \notin Raising
              => /\ outcomes[j] \in { "added", "updated" }
                 /\ Stored(store, files_to_process[j])

\* Three files, the one in the middle raised, the run went on to the last.
C2_Witness ==
  /\ pc = "exit"
  /\ Len(files_to_process) = 3
  /\ Len(outcomes) = 3
  /\ Raising = { 2 }
  /\ stats.added + stats.updated = 2

\* The path lies below a registered directory and its name matches that
\* directory's pattern.
InRegisteredDir(p) ==
  \E k \in MappingDirs :
    /\ IsBelow(p, COLLECTION_MAPPINGS[k[1]].directories[k[2]])
    /\ Match(p, COLLECTION_MAPPINGS[k[1]].file_pattern)

\* C3: a path outside every registered directory, or below one with a name
\* that does not match its pattern, classifies to no collection and no type.
C3_NoMatchOutside ==
  (pc = "classified" /\ ~InRegisteredDir(probe.path))
    => probe.collection = None /\ probe.type = None

\* C4: every path get_files_to_reindex returns classifies into a collection.
C4_SelectedFilesClassify ==
  pc = "resolved"
    => \A i \in 1..Len(files_to_process) :
         get_collection_for_file(files_to_process[i]) # None

\* A directory selection that returned a file and left out the one beside it
\* whose name does not match.
C4_Witness ==
  /\ pc = "resolved"
  /\ args.directory = << "docs", "features" >>
  /\ files_to_process = << << "docs", "features", "login.feature" >> >>
  /\ << "docs", "features", "notes.md" >> \in DOMAIN fs

SetupErrors == { "NotInitialized", "ClientError", "CollectionError" }
SelectionErrors == { "FileNotFoundError", "ValueError" }

\* The invocation got past lines 60-78.
Bootstrapped == pc \in { "loop", "exit", "killed" } /\ error \notin SetupErrors

\* C5: once the bootstrap of a run has completed, verify_collections finds no
\* collection missing.
C5_BootstrapIdempotent == Bootstrapped => verify_collections(store) = << >>

\* The run started with collections missing.
C5_Witness ==
  /\ Bootstrapped
  /\ Len(verify_collections(store0)) >= 2
  /\ verify_collections(store) = << >>

\* C6: the invocation ends with status 1 exactly when a setup or a
\* classification error ended it, and with status 0 otherwise.
C6_ExitStatus ==
  pc = "exit" => (exit_code = 1 <=> error \in SetupErrors \cup SelectionErrors)

\* The selection names a file that does not exist or does not classify, an
\* unknown type, or a directory that does not exist or is not registered.
InvalidSelection(a) ==
  \/ /\ a.file_path # << >>
     /\ \/ ~Exists(DOMAIN fs, dirs, a.file_path)
        \/ get_collection_for_file(a.file_path) = None
  \/ /\ a.file_path = << >>
     /\ a.type \notin { "", "ts4", "feature", "md", "yaml" }
  \/ /\ a.file_path = << >>
     /\ a.type = ""
     /\ a.directory # << >>
     /\ \/ ~Exists(DOMAIN fs, dirs, a.directory)
        \/ a.directory \notin RegisteredDirs

SameDocs(st, st0) ==
  /\ \A c \in DOMAIN st0 : c \in DOMAIN st /\ st[c] = st0[c]
  /\ \A c \in DOMAIN st \ DOMAIN st0 : st[c] = NoDocs

\* C7: a run with a setup or a classification error has ended with status 1,
\* has called reindex_file (the only place that adds or updates) for no file,
\* and the documents of the store are those it started with.
C7_SetupErrorAborts ==
  (pc \in { "loop", "exit", "killed" }
   /\ (error \in SetupErrors \/ InvalidSelection(args)))
    => /\ pc = "exit"
       /\ exit_code = 1
       /\ outcomes = << >>
       /\ SameDocs(store, store0)

\* A file argument that exists and does not classify, the store holding a
\* document of an earlier run.
C7_Witness ==
  /\ pc = "exit"
  /\ args.file_path = << "docs", "adrs" >>
  /\ error = "ValueError"
  /\ Stored(store, << "docs", "adrs", "a.md" >>)

\* The *.md files below docs/adrs and below docs/business.
MarkdownOfBoth ==
  { p \in DOMAIN fs :
      /\ \/ IsBelow(p, << "docs", "adrs" >>)
         \/ IsBelow(p, << "docs", "business" >>)
      /\ EndsWith(Chars[p[Len(p)]], << ".", "m", "d" >>) }

\* C8: the selection of type md is the set of the *.md files below docs/adrs
\* and docs/business, each once.
C8_MarkdownUnion ==
  (pc = "resolved" /\ args.type = "md")
    => /\ error = None
       /\ SeqSet(files_to_process) = MarkdownOfBoth
       /\ Len(files_to_process) = Cardinality(MarkdownOfBoth)

\* Files of both directories were returned.
C8_Witness ==
  /\ pc = "resolved"
  /\ args.type = "md"
  /\ << "docs", "business", "c.md" >> \in SeqSet(files_to_process)
  /\ << "docs", "adrs", "sub", "b.md" >> \in SeqSet(files_to_process)
  /\ << "docs", "features", "notes.md" >> \in DOMAIN fs

\* C9: when all or a known type is selected, no error is raised; for every
\* registered directory that does not exist the result is the one of the same
\* tree with that directory present and empty; and (all selected) every
\* matching file below a registered directory is returned.
C9_AbsentDirectoryAsEmpty ==
  (pc = "resolved" /\ args.file_path = << >> /\ args.directory = << >>
   /\ args.type \in { "", "ts4", "feature", "md", "yaml" })
    => /\ error = None
       /\ \A d \in RegisteredDirs \ dirs :
            get_files_to_reindex(DOMAIN fs, dirs \cup { d } \cup Ancestors({ d }),
                                 << >>, args.type, << >>).files
              = files_to_process
       /\ args.type = ""
            => \A p \in DOMAIN fs : InRegisteredDir(p) => p \in SeqSet(files_to_process)

\* All selected, docs/adrs absent, the file of docs/business returned.
C9_Witness ==
  /\ pc = "resolved"
  /\ IsAll(args)
  /\ << "docs", "adrs" >> \notin dirs
  /\ << "docs", "business", "c.md" >> \in SeqSet(files_to_process)

\* C10: a run with --dry-run ends with the store as it was when it started.
C10_DryRunLeavesStore == (pc = "exit" /\ args.dry_run) => store = store0

\* The order of two lists of paths: each path before its successor, as Path
\* values and as the strings of the paths.  project_root is the same prefix of
\* every absolute path, so the relative paths compare as the absolute ones do.
AscendingPaths(files) ==
  \A i \in 1..(Len(files) - 1) : PathLess(files[i], files[i + 1])

AscendingStrings(files) ==
  \A i \in 1..(Len(files) - 1) : StrLess(Str(files[i]), Str(files[i + 1]))

\* What a selection scans, and the entries the scans yield, in no order.
Searches(a) ==
  IF a.type # "" THEN TypeDirs(a.type)
  ELSE IF a.directory # << >>
    THEN << [ dir |-> a.directory,
              pattern |-> COLLECTION_MAPPINGS[DirectoryMapping(a.directory)].file_pattern ] >>
  ELSE AllDirs

Candidates(a) ==
  IF a.file_path # << >> THEN { a.file_path }
  ELSE UNION { Rglob(DOMAIN fs, dirs, Searches(a)[i].dir, Searches(a)[i].pattern) :
                 i \in 1..Len(Searches(a)) }

\* C11, as stated: the list get_files_to_reindex returns is in the ascending
\* order of the strings of the paths, no path twice.
C11_SortedByPathString ==
  (pc = "resolved" /\ error = None) => AscendingStrings(files_to_process)

\* C11: the list get_files_to_reindex returns holds no path twice, is in the
\* ascending order of Path (component by component), and is the one sorted
\* list of the entries the selection scans, in whatever order the file system
\* lists them: the same arguments over the same tree give the same list.
C11_SortedByPath ==
  (pc = "resolved" /\ error = None)
    => /\ AscendingPaths(files_to_process)
       /\ Len(files_to_process) = Cardinality(SeqSet(files_to_process))
       /\ files_to_process = Sorted(Candidates(args))

\* The file system lists in descending order, and the selection returns the
\* file of docs/adrs/sub before the one of docs/adrs/sub-x.
C11_Witness ==
  /\ pc = "resolved"
  /\ scan = "descending"
  /\ \E i \in 1..(Len(files_to_process) - 1) :
       /\ files_to_process[i] = << "docs", "adrs", "sub", "b.md" >>
       /\ files_to_process[i + 1] = << "docs", "adrs", "sub-x", "d.md" >>

\* The payload reindex_file builds for a file: its content and the metadata
\* of lines 252-256.
FullPayload(file_path) ==
  [ document |-> fs[file_path],
    metadata |-> [ file_path |-> Str(file_path),
                   type |-> get_file_type(file_path),
                   collection |-> get_collection_for_file(file_path) ] ]

\* C12: when the existence check of the latest reindex_file call raised, the
\* call issued collection.add with the full payload and no update; it
\* returned "added" unless the add itself raised.
C12_LookupFailureInserts ==
  last.lookup_raised
    => /\ last.call = "add"
       /\ last.payload = FullPayload(last.file)
       /\ last.result \in { "added", "raised" }
       /\ (last.result = "added" => Stored(store, last.file))

\* The existence check raised for a file the store already holds, and the
\* call returned "added".
C12_Witness ==
  /\ last.lookup_raised
  /\ last.before \in { "added", "updated" }
  /\ last.result = "added"

\* The type of the mapping of a collection.
TypeOfCollection(c) ==
  LET i == CHOOSE k \in 1..Len(COLLECTION_MAPPINGS) : COLLECTION_MAPPINGS[k].name = c
  IN  COLLECTION_MAPPINGS[i].type

\* C13: every document of the store is keyed by the relative path of a project
\* file, is in the collection get_collection_for_file gives for that path and
\* in no other, and its metadata are the three fields file_path (the key),
\* type (of the collection's mapping) and collection; an add and an update
\* are issued with that same payload.
C13_StoreShape ==
  /\ \A c \in DOMAIN store : \A id \in DOMAIN store[c] :
       /\ \E p \in ProjectFiles :
            /\ Str(p) = id
            /\ get_collection_for_file(p) = c
       /\ \A c2 \in DOMAIN store \ { c } : id \notin DOMAIN store[c2]
       /\ DOMAIN store[c][id].metadata = { "file_path", "type", "collection" }
       /\ store[c][id].metadata =
            [ file_path |-> id, type |-> TypeOfCollection(c), collection |-> c ]
  /\ last.call # None
       => /\ DOMAIN last.payload = { "document", "metadata" }
          /\ last.payload.document = fs[last.file]
          /\ last.payload.metadata =
               [ file_path |-> Str(last.file),
                 type |-> TypeOfCollection(get_collection_for_file(last.file)),
                 collection |-> get_collection_for_file(last.file) ]

\* Two collections hold a document, and the latest call updated one of them.
C13_Witness ==
  /\ last.call = "update"
  /\ last.result = "updated"
  /\ Stored(store, << "docs", "adrs", "a.md" >>)
  /\ Stored(store, << "docs", "features", "login.feature" >>)

\* The store a run that reconciles every one of files without a failure
\* leaves, from the store st0: every required collection, for each file the
\* document of its content, every other document as it was.
ExpectedStore(st0, files) ==
  [ c \in DOMAIN st0 \cup SeqSet(REQUIRED_COLLECTIONS) |->
      LET held == { f \in SeqSet(files) : get_collection_for_file(f) = c }
          was == IF c \in DOMAIN st0 THEN st0[c] ELSE NoDocs
      IN  [ id \in DOMAIN was \cup { Str(f) : f \in held } |->
              IF \E f \in held : Str(f) = id
              THEN LET f == CHOOSE g \in held : Str(g) = id
                   IN  Document(f, fs[f])
              ELSE was[id] ] ]

\* At any point of a run, stopped or not, a selected file has the document
\* the run started with or the whole document of its content, and nothing
\* else of the store has changed but for the collections the run created.
NoPartialWrite ==
  pc \in { "loop", "exit", "killed" }
    => \A c \in DOMAIN store :
         LET was == IF c \in DOMAIN store0 THEN store0[c] ELSE NoDocs
         IN  /\ DOMAIN was \subseteq DOMAIN store[c]
             /\ \A id \in DOMAIN store[c] :
                  \/ id \in DOMAIN was /\ store[c][id] = was[id]
                  \/ \E f \in SeqSet(files_to_process) :
                       /\ Str(f) = id
                       /\ store[c][id] = Document(f, fs[f])

\* The run ended after its loop, and the run before it was stopped in its
\* loop with the same selection.
RerunCompleted ==
  /\ pc = "exit"
  /\ exit_code = 0
  /\ interrupted = [ killed |-> TRUE, file_path |-> args.file_path,
                     type |-> args.type, directory |-> args.directory ]

\* No file the store held when the run started was reported as added.
NoneAddedOver ==
  \A i \in 1..Len(outcomes) :
    outcomes[i] = "added" => ~Stored(store0, files_to_process[i])

Count(result) == Cardinality({ i \in 1..Len(outcomes) : outcomes[i] = result })

\* C15: at every point of a run the counters added, updated and errors are
\* the numbers of files processed so far that were added, were updated and
\* raised, skipped is 0, the files processed so far are the first of the list
\* in its order, the latest being the one reindex_file was last called for;
\* a run that returns from its loop has processed every file of the list, so
\* the four counters sum to the length of the list.
C15_CountersMatchProgress ==
  /\ stats.added = Count("added")
  /\ stats.updated = Count("updated")
  /\ stats.errors = Count("raised")
  /\ stats.skipped = 0
  /\ stats.added + stats.updated + stats.errors = Len(outcomes)
  /\ Len(outcomes) <= Len(files_to_process)
  /\ outcomes # << >> => last.file = files_to_process[Len(outcomes)]
  /\ (pc = "exit" /\ exit_code = 0)
       => stats.added + stats.updated + stats.skipped + stats.errors
            = Len(files_to_process)

\* A run of three files returned from its loop with one error, one file added
\* and one updated.
C15_Witness ==
  /\ pc = "exit"
  /\ exit_code = 0
  /\ Len(files_to_process) = 3
  /\ stats.errors = 1
  /\ stats.added = 1
  /\ stats.updated = 1

=============================================================================
